---- MODULE Spec2Model ----
(***************************************************************************)
(* bq2dbx-migrator: convert_sql (bq2dbx/converter/sql_converter.py) and    *)
(* the batch endpoint convert_batch (app.py).                              *)
(*                                                                         *)
(* Query text is a sequence of one-character strings.  The regular         *)
(* expressions of the rewrite chain are kept as data (a sequence of items  *)
(* per alternative) and run by a backtracking matcher with the semantics   *)
(* of Python's re.sub: leftmost match, alternatives in order, greedy and   *)
(* lazy repetition, non-overlapping replacement left to right.             *)
(***************************************************************************)
EXTENDS Integers, Sequences, FiniteSets, TLC

(***************************************************************************)
(* Characters and character classes                                        *)
(***************************************************************************)
UpperSeq ==
  <<"A","B","C","D","E","F","G","H","I","J","K","L","M",
    "N","O","P","Q","R","S","T","U","V","W","X","Y","Z">>

LowerSeq ==
  <<"a","b","c","d","e","f","g","h","i","j","k","l","m",
    "n","o","p","q","r","s","t","u","v","w","x","y","z">>

UpperChars == {UpperSeq[i] : i \in 1..Len(UpperSeq)}

LowerChars == {LowerSeq[i] : i \in 1..Len(LowerSeq)}

DigitChars == {"0","1","2","3","4","5","6","7","8","9"}

\* the back-quote character (the parser of this language cannot read it
\* inside a string, so it is written out)
BackQuote == "BACKQUOTE"

\* \w of a str pattern, on ASCII text
WordChars == UpperChars \cup LowerChars \cup DigitChars \cup {"_"}

\* \s of a str pattern, on ASCII text
SpaceChars == {" ", "\t", "\n", "\r", "\f"}

UpperOf == [c \in LowerChars |-> UpperSeq[CHOOSE i \in 1..Len(LowerSeq) : LowerSeq[i] = c]]

LowerOf == [c \in UpperChars |-> LowerSeq[CHOOSE i \in 1..Len(UpperSeq) : UpperSeq[i] = c]]

\* str.upper() on one character
ToUpper(c) == IF c \in LowerChars THEN UpperOf[c] ELSE c

\* str.upper()
Upper(t) == [i \in 1..Len(t) |-> ToUpper(t[i])]

\* the two cases of a character, as re.IGNORECASE matches a literal
BothCases(c) ==
  IF c \in LowerChars THEN {c, UpperOf[c]}
  ELSE IF c \in UpperChars THEN {c, LowerOf[c]}
  ELSE {c}

\* a character class: the characters of set, or (neg) every other character
Cls(set) == [neg |-> FALSE, set |-> set]

NotCls(set) == [neg |-> TRUE, set |-> set]

InClass(c, cls) == (c \in cls.set) # cls.neg

\* "." without re.DOTALL: anything but a line break
DotCls == NotCls({"\n"})

WordCls == Cls(WordChars)

SpaceCls == Cls(SpaceChars)

DigitCls == Cls(DigitChars)

\* [\w\-]
WordDashCls == Cls(WordChars \cup {"-"})

(***************************************************************************)
(* Regular expressions as data.  An item is a repetition of a class        *)
(* (min..max times, max = -1 for no limit, lazy or greedy) or the          *)
(* assertion \b.  g is the capture group the item lies in (0: none).       *)
(***************************************************************************)
Rep(cls, min, max, lazy, g) ==
  [kind |-> "cls", cls |-> cls, min |-> min, max |-> max, lazy |-> lazy, g |-> g]

\* one literal character
Ch(c) == Rep(Cls({c}), 1, 1, FALSE, 0)

\* one literal character under re.IGNORECASE
ChI(c) == Rep(Cls(BothCases(c)), 1, 1, FALSE, 0)

\* a literal word
Lit(s) == [i \in 1..Len(s) |-> Ch(s[i])]

\* a literal word under re.IGNORECASE
LitI(s) == [i \in 1..Len(s) |-> ChI(s[i])]

\* X? on a literal character under re.IGNORECASE
OptI(c) == Rep(Cls(BothCases(c)), 0, 1, FALSE, 0)

\* cls* and cls+ (greedy), outside any group
Star(cls) == Rep(cls, 0, -1, FALSE, 0)

Plus(cls) == Rep(cls, 1, -1, FALSE, 0)

\* (cls+) as capture group g
PlusG(cls, g) == Rep(cls, 1, -1, FALSE, g)

\* (.*?) as capture group g
LazyDotG(g) == Rep(DotCls, 0, -1, TRUE, g)

\* \b
WordB == [kind |-> "wordb", cls |-> Cls({}), min |-> 0, max |-> 0, lazy |-> FALSE, g |-> 0]

\* the items of a sub-pattern placed inside capture group g
InG(g, items) == [i \in 1..Len(items) |-> [items[i] EXCEPT !.g = g]]

\* the value of a group that took no part in the match
None == <<"<None>">>

\* no match
Fail == <<0>>

(***************************************************************************)
(* The matcher                                                             *)
(***************************************************************************)
\* the least element of a non-empty set of integers
Least(S) == CHOOSE x \in S : \A y \in S : x <= y

\* how many characters from pos on lie in cls, at most max of them
Run(t, pos, cls, max) ==
  LET left == Len(t) - pos + 1
      lim == IF max < 0 \/ max > left THEN left ELSE max
      out == {n \in 0..(lim - 1) : ~InClass(t[pos + n], cls)}
  IN  IF out = {} THEN lim ELSE Least(out)

IsWordAt(t, i) == i >= 1 /\ i <= Len(t) /\ t[i] \in WordChars

\* \b holds between t[pos-1] and t[pos]
AtWordBoundary(t, pos) == IsWordAt(t, pos - 1) # IsWordAt(t, pos)

\* the greatest element of a non-empty set of integers
Greatest(S) == CHOOSE x \in S : \A y \in S : y <= x

\* item k of pat can start at pos: it may be empty, or the character at pos
\* is one of its class (what every match of items k.. from pos needs)
CanFollow(pat, t, k, pos) ==
  \/ k > Len(pat)
  \/ pat[k].kind = "wordb"
  \/ pat[k].min = 0
  \/ (pos <= Len(t) /\ InClass(t[pos], pat[k].cls))

RECURSIVE MatchItems(_, _, _, _)
RECURSIVE TryCount(_, _, _, _, _)
\* items k.. of pat matched from pos: the end position of each, or Fail
MatchItems(pat, t, k, pos) ==
  IF k > Len(pat) THEN <<>>
  ELSE IF pat[k].kind = "wordb"
    THEN IF AtWordBoundary(t, pos)
           THEN LET r == MatchItems(pat, t, k + 1, pos)
                IN  IF r = Fail THEN Fail ELSE <<pos>> \o r
           ELSE Fail
    ELSE LET run == Run(t, pos, pat[k].cls, pat[k].max)
         IN  TryCount(pat, t, k, pos,
                      {n \in pat[k].min..run : CanFollow(pat, t, k + 1, pos + n)})

\* item k taking one of the counts of cand, tried in the item's order of
\* preference (lazy: the fewest first, greedy: the most first) until the
\* rest of the pattern matches
TryCount(pat, t, k, pos, cand) ==
  IF cand = {} THEN Fail
  ELSE LET n == IF pat[k].lazy THEN Least(cand) ELSE Greatest(cand)
           r == MatchItems(pat, t, k + 1, pos + n)
       IN  IF r # Fail THEN <<pos + n>> \o r
           ELSE TryCount(pat, t, k, pos, cand \ {n})

\* the text captured by group g in a match of pat at pos with item ends `ends`
GroupText(pat, t, pos, ends, g) ==
  LET idx == {k \in 1..Len(pat) : pat[k].g = g}
  IN  IF idx = {} THEN None
      ELSE LET a == CHOOSE k \in idx : \A j \in idx : k <= j
               b == CHOOSE k \in idx : \A j \in idx : k >= j
               from == IF a = 1 THEN pos ELSE ends[a - 1]
           IN  SubSeq(t, from, ends[b] - 1)

\* the match object of alternative alt matched at pos with item ends `ends`
MatchObject(alt, ng, t, pos, ends) ==
  [ok |-> TRUE, start |-> pos,
   end |-> IF ends = <<>> THEN pos ELSE ends[Len(ends)],
   groups |-> [g \in 1..ng |-> GroupText(alt, t, pos, ends, g)]]

RECURSIVE FirstAlt(_, _, _, _, _)
\* alternative a having given `ends` at pos: its match, or the next alternative
AltOrNext(alts, ng, t, pos, a, ends) ==
  IF ends = Fail THEN FirstAlt(alts, ng, t, pos, a + 1)
  ELSE MatchObject(alts[a], ng, t, pos, ends)

\* the first alternative (from the a-th on) that matches at pos
FirstAlt(alts, ng, t, pos, a) ==
  IF a > Len(alts) THEN [ok |-> FALSE]
  ELSE AltOrNext(alts, ng, t, pos, a, MatchItems(alts[a], t, 1, pos))

\* the positions at which the pattern matches
MatchStarts(alts, t) == {p \in 1..Len(t) : FirstAlt(alts, 0, t, p, 1).ok}

RECURSIVE FindFrom(_, _, _, _, _)
\* match m, then the matches after its end
ThenFrom(alts, ng, t, starts, m) == <<m>> \o FindFrom(alts, ng, t, starts, m.end)

\* the matches from pos on: the leftmost one, then those after its end
FindFrom(alts, ng, t, starts, pos) ==
  LET ahead == {p \in starts : p >= pos}
  IN  IF ahead = {} THEN <<>>
      ELSE ThenFrom(alts, ng, t, starts, FirstAlt(alts, ng, t, Least(ahead), 1))

\* re.finditer: the non-overlapping matches, leftmost first.  No pattern of
\* the program matches the empty string, so a match always moves forward.
FindAll(alts, ng, t, pos) == FindFrom(alts, ng, t, MatchStarts(alts, t), pos)

RECURSIVE Flatten(_)
Flatten(ss) == IF ss = <<>> THEN <<>> ELSE Head(ss) \o Flatten(Tail(ss))

\* re.sub(pattern, repl, t), given the matches ms of the pattern in t and
\* the replacement repls[i] of each: every match replaced, the text between
\* the matches kept
Sub(ms, repls, t) ==
  LET piece(i) == SubSeq(t, IF i = 1 THEN 1 ELSE ms[i - 1].end, ms[i].start - 1)
                    \o repls[i]
      rest == SubSeq(t, IF ms = <<>> THEN 1 ELSE ms[Len(ms)].end, Len(t))
  IN  Flatten([i \in 1..Len(ms) |-> piece(i)]) \o rest

\* re.search(pattern, t) is not None
Matches(alts, t) == MatchStarts(alts, t) # {}

(***************************************************************************)
(* str methods                                                             *)
(***************************************************************************)
\* t[pos:].startswith(s)
StartsAt(t, pos, s) ==
  /\ pos + Len(s) - 1 <= Len(t)
  /\ \A i \in 1..Len(s) : t[pos + i - 1] = s[i]

\* s in t
Contains(t, s) == \E pos \in 1..(Len(t) + 1) : StartsAt(t, pos, s)

\* the positions at which s occurs in t
Occurrences(t, s) == {p \in 1..Len(t) : StartsAt(t, p, s)}

RECURSIVE ReplaceFrom(_, _, _, _, _)
\* t[pos:] with the occurrences of old replaced: the leftmost one from pos
\* on, then those after its end
ReplaceFrom(t, old, new, occ, pos) ==
  LET ahead == {p \in occ : p >= pos}
  IN  IF ahead = {} THEN SubSeq(t, pos, Len(t))
      ELSE SubSeq(t, pos, Least(ahead) - 1) \o new
             \o ReplaceFrom(t, old, new, occ, Least(ahead) + Len(old))

\* t.replace(old, new) for a non-empty old: the occurrences found left to
\* right, non-overlapping, each replaced once
Replace(t, old, new) == ReplaceFrom(t, old, new, Occurrences(t, old), 1)

\* t.strip(): t between its first and its last non-blank character
Strip(t) ==
  LET keep == {i \in 1..Len(t) : t[i] \notin SpaceChars}
  IN  IF keep = {} THEN <<>>
      ELSE SubSeq(t, Least(keep), CHOOSE i \in keep : \A j \in keep : j <= i)

(***************************************************************************)
(* Step 2 of convert_sql: the rewrite passes, in the order of the code     *)
(***************************************************************************)
\* ARRAY_AGG(DISTINCT ...) -> COLLECT_SET(...), keyed on the original query
ArrayAggPass(query, t) ==
  IF Contains(Upper(query), <<"A","R","R","A","Y","_","A","G","G","(","D","I","S","T","I","N","C","T">>)
    THEN Replace(t, <<"C","O","L","L","E","C","T","_","L","I","S","T","(","D","I","S","T","I","N","C","T">>, <<"C","O","L","L","E","C","T","_","S","E","T","(">>)
    ELSE t

\* r"COUNT_IF\s*\((.*?)\)", re.IGNORECASE
CountIfRe ==
  << LitI(<<"C","O","U","N","T","_","I","F">>) \o <<Star(SpaceCls), Ch("("), LazyDotG(1), Ch(")")>> >>

\* r"SUM(CASE WHEN \1 THEN 1 ELSE 0 END)"
CountIfRepl(g) == <<"S","U","M","(","C","A","S","E"," ","W","H","E","N"," ">> \o g[1] \o <<" ","T","H","E","N"," ","1"," ","E","L","S","E"," ","0"," ","E","N","D",")">>

CountIfPass(t) ==
  LET ms == FindAll(CountIfRe, 1, t, 1)
  IN  Sub(ms, [i \in 1..Len(ms) |-> CountIfRepl(ms[i].groups)], t)

\* r"IF\s*\((.*?),(.*?),(.*?)\)", re.IGNORECASE
IfRe ==
  << LitI(<<"I","F">>) \o <<Star(SpaceCls), Ch("("), LazyDotG(1), Ch(","),
                       LazyDotG(2), Ch(","), LazyDotG(3), Ch(")")>> >>

\* r"CASE WHEN \1 THEN \2 ELSE \3 END"
IfRepl(g) == <<"C","A","S","E"," ","W","H","E","N"," ">> \o g[1] \o <<" ","T","H","E","N"," ">> \o g[2] \o <<" ","E","L","S","E"," ">> \o g[3] \o <<" ","E","N","D">>

IfPass(t) ==
  LET ms == FindAll(IfRe, 3, t, 1)
  IN  Sub(ms, [i \in 1..Len(ms) |-> IfRepl(ms[i].groups)], t)

\* r"STRUCT\s*\((.*?)\)", re.IGNORECASE
StructRe ==
  << LitI(<<"S","T","R","U","C","T">>) \o <<Star(SpaceCls), Ch("("), LazyDotG(1), Ch(")")>> >>

\* r"(\w+)\s+AS\s+(\w+)" (no flags)
StructFieldRe ==
  << <<PlusG(WordCls, 1), Plus(SpaceCls)>> \o Lit(<<"A","S">>)
       \o <<Plus(SpaceCls), PlusG(WordCls, 2)>> >>

\* r"'\2', \1"
StructFieldRepl(g) == <<"'">> \o g[2] \o <<"'",","," ">> \o g[1]

\* lambda m: "named_struct(" + re.sub(..., m.group(1)) + ")"
StructRepl(g) ==
  LET ms == FindAll(StructFieldRe, 2, g[1], 1)
  IN  <<"n","a","m","e","d","_","s","t","r","u","c","t","(">>
        \o Sub(ms, [i \in 1..Len(ms) |-> StructFieldRepl(ms[i].groups)], g[1])
        \o <<")">>

StructPass(t) ==
  LET ms == FindAll(StructRe, 1, t, 1)
  IN  Sub(ms, [i \in 1..Len(ms) |-> StructRepl(ms[i].groups)], t)

\* r"ARRAY<\w+>\[(.*?)\]", re.IGNORECASE
ArrayRe ==
  << LitI(<<"A","R","R","A","Y">>) \o <<Ch("<"), Plus(WordCls), Ch(">"), Ch("["),
                          LazyDotG(1), Ch("]")>> >>

\* r"ARRAY(\1)"
ArrayRepl(g) == <<"A","R","R","A","Y","(">> \o g[1] \o <<")">>

ArrayPass(t) ==
  LET ms == FindAll(ArrayRe, 1, t, 1)
  IN  Sub(ms, [i \in 1..Len(ms) |-> ArrayRepl(ms[i].groups)], t)

\* r"\s*\+\s*(\d+)"
DateTail == <<Star(SpaceCls), Ch("+"), Star(SpaceCls), PlusG(DigitCls, 2)>>

\* r"((?:DATE\s+'[^']+'|CAST\([^)]*AS\s+DATE\)))\s*\+\s*(\d+)" (no flags):
\* the two alternatives of the inner group, each followed by the tail
DateRe ==
  << InG(1, Lit(<<"D","A","T","E">>) \o <<Plus(SpaceCls), Ch("'"), Plus(NotCls({"'"})), Ch("'")>>)
       \o DateTail,
     InG(1, Lit(<<"C","A","S","T","(">>) \o <<Star(NotCls({")"}))>> \o Lit(<<"A","S">>)
             \o <<Plus(SpaceCls)>> \o Lit(<<"D","A","T","E",")">>))
       \o DateTail >>

\* r"\1 + INTERVAL \2 DAY"
DateRepl(g) == g[1] \o <<" ","+"," ","I","N","T","E","R","V","A","L"," ">> \o g[2] \o <<" ","D","A","Y">>

DatePass(t) ==
  LET ms == FindAll(DateRe, 2, t, 1)
  IN  Sub(ms, [i \in 1..Len(ms) |-> DateRepl(ms[i].groups)], t)

\* r"PARTITION\s+BY\s+DATE\s*\(\s*(\w+)\s*\)", re.IGNORECASE
PartitionRe ==
  << LitI(<<"P","A","R","T","I","T","I","O","N">>) \o <<Plus(SpaceCls)>> \o LitI(<<"B","Y">>) \o <<Plus(SpaceCls)>>
       \o LitI(<<"D","A","T","E">>)
       \o <<Star(SpaceCls), Ch("("), Star(SpaceCls), PlusG(WordCls, 1),
            Star(SpaceCls), Ch(")")>> >>

\* r"PARTITIONED BY (\1)"
PartitionRepl(g) == <<"P","A","R","T","I","T","I","O","N","E","D"," ","B","Y"," ","(">> \o g[1] \o <<")">>

PartitionPass(t) ==
  LET ms == FindAll(PartitionRe, 1, t, 1)
  IN  Sub(ms, [i \in 1..Len(ms) |-> PartitionRepl(ms[i].groups)], t)

\* r"\bCLUSTER\s+BY\b", re.IGNORECASE
ClusterRe ==
  << <<WordB>> \o LitI(<<"C","L","U","S","T","E","R">>) \o <<Plus(SpaceCls)>> \o LitI(<<"B","Y">>) \o <<WordB>> >>

ClusterRepl(g) == <<"C","L","U","S","T","E","R","E","D"," ","B","Y">>

ClusterPass(t) ==
  LET ms == FindAll(ClusterRe, 0, t, 1)
  IN  Sub(ms, [i \in 1..Len(ms) |-> ClusterRepl(ms[i].groups)], t)

\* r"UNNEST\s*\(\s*SEQUENCE\s*\((.*?)\)\s*\)", re.IGNORECASE
UnnestRe ==
  << LitI(<<"U","N","N","E","S","T">>) \o <<Star(SpaceCls), Ch("("), Star(SpaceCls)>>
       \o LitI(<<"S","E","Q","U","E","N","C","E">>)
       \o <<Star(SpaceCls), Ch("("), LazyDotG(1), Ch(")"), Star(SpaceCls), Ch(")")>> >>

\* r"EXPLODE(SEQUENCE(\1))"
UnnestRepl(g) == <<"E","X","P","L","O","D","E","(","S","E","Q","U","E","N","C","E","(">> \o g[1] \o <<")",")">>

UnnestPass(t) ==
  LET ms == FindAll(UnnestRe, 1, t, 1)
  IN  Sub(ms, [i \in 1..Len(ms) |-> UnnestRepl(ms[i].groups)], t)

\* r"\s*\((.*?),(.*?)\)"
TwoArgs == <<Star(SpaceCls), Ch("("), LazyDotG(1), Ch(","), LazyDotG(2), Ch(")")>>

\* r"STARTS?_?WITH\s*\((.*?),(.*?)\)", re.IGNORECASE
StartsWithRe ==
  << LitI(<<"S","T","A","R","T">>) \o <<OptI("S"), OptI("_")>> \o LitI(<<"W","I","T","H">>) \o TwoArgs >>

\* r"CASE WHEN \1 LIKE CONCAT(\2, '%') THEN TRUE ELSE FALSE END"
StartsWithRepl(g) ==
  <<"C","A","S","E"," ","W","H","E","N"," ">> \o g[1] \o <<" ","L","I","K","E"," ","C","O","N","C","A","T","(">> \o g[2] \o <<","," ","'","%","'",")"," ","T","H","E","N"," ","T","R","U","E"," ","E","L","S","E"," ","F","A","L","S","E"," ","E","N","D">>

StartsWithPass(t) ==
  LET ms == FindAll(StartsWithRe, 2, t, 1)
  IN  Sub(ms, [i \in 1..Len(ms) |-> StartsWithRepl(ms[i].groups)], t)

\* r"ENDS?_?WITH\s*\((.*?),(.*?)\)", re.IGNORECASE
EndsWithRe ==
  << LitI(<<"E","N","D">>) \o <<OptI("S"), OptI("_")>> \o LitI(<<"W","I","T","H">>) \o TwoArgs >>

\* r"CASE WHEN \1 LIKE CONCAT('%', \2) THEN TRUE ELSE FALSE END"
EndsWithRepl(g) ==
  <<"C","A","S","E"," ","W","H","E","N"," ">> \o g[1] \o <<" ","L","I","K","E"," ","C","O","N","C","A","T","(","'","%","'",","," ">> \o g[2] \o <<")"," ","T","H","E","N"," ","T","R","U","E"," ","E","L","S","E"," ","F","A","L","S","E"," ","E","N","D">>

EndsWithPass(t) ==
  LET ms == FindAll(EndsWithRe, 2, t, 1)
  IN  Sub(ms, [i \in 1..Len(ms) |-> EndsWithRepl(ms[i].groups)], t)

\* r"(\w+):(\w+)" (no flags)
JsonColonRe == << <<PlusG(WordCls, 1), Ch(":"), PlusG(WordCls, 2)>> >>

\* r"(\w+)\['(\w+)'\]" (no flags)
JsonBracketRe ==
  << <<PlusG(WordCls, 1), Ch("["), Ch("'"), PlusG(WordCls, 2), Ch("'"), Ch("]")>> >>

\* r"get_json_object(\1, '$.\2')"
JsonRepl(g) == <<"g","e","t","_","j","s","o","n","_","o","b","j","e","c","t","(">> \o g[1] \o <<","," ","'","$",".">> \o g[2] \o <<"'",")">>

JsonColonPass(t) ==
  LET ms == FindAll(JsonColonRe, 2, t, 1)
  IN  Sub(ms, [i \in 1..Len(ms) |-> JsonRepl(ms[i].groups)], t)

JsonBracketPass(t) ==
  LET ms == FindAll(JsonBracketRe, 2, t, 1)
  IN  Sub(ms, [i \in 1..Len(ms) |-> JsonRepl(ms[i].groups)], t)

\* r"SEARCH\s*\((.*?),(.*?)\)", re.IGNORECASE
SearchRe == << LitI(<<"S","E","A","R","C","H">>) \o TwoArgs >>

\* r"CONTAINS(\1, \2)"
SearchRepl(g) == <<"C","O","N","T","A","I","N","S","(">> \o g[1] \o <<","," ">> \o g[2] \o <<")">>

SearchPass(t) ==
  LET ms == FindAll(SearchRe, 2, t, 1)
  IN  Sub(ms, [i \in 1..Len(ms) |-> SearchRepl(ms[i].groups)], t)

(***************************************************************************)
(* Step 4 of convert_sql: cleanup                                          *)
(***************************************************************************)
Cleanup(t) ==
  Strip(Replace(Replace(Replace(Replace(t,
      <<"T","I","M","E","S","T","A","M","P","S","T","A","M","P">>, <<"T","I","M","E","S","T","A","M","P">>),
      <<"("," ">>, <<"(">>),
      <<" ",")">>, <<")">>),
      <<"C","U","R","R","E","N","T","_","T","I","M","E","S","T","A","M","P","(",")">>, <<"C","U","R","R","E","N","T","_","T","I","M","E","S","T","A","M","P">>))

(***************************************************************************)
(* Step 3 of convert_sql: the rule document and the mappings               *)
(*                                                                         *)
(* A YAML value under a key is absent (no such key), null (the key with    *)
(* nothing under it, None in Python) or a mapping, kept as the sequence of *)
(* its <<key, value>> items in document order (a dict keeps that order).   *)
(***************************************************************************)
Absent == [shape |-> "absent"]

Null == [shape |-> "null"]

Dict(items) == [shape |-> "dict", items |-> items]

\* the value of table_mapping when it is a mapping: its three keys
TableDict(p, d, tb) == [shape |-> "dict", projects |-> p, datasets |-> d, tables |-> tb]

\* rules = {}
EmptyRules == [shape |-> "dict", functions |-> Absent, table_mapping |-> Absent]

\* str(e) of the AttributeError raised by a method call on None or on a list
MsgNoneItems == <<"'","N","o","n","e","T","y","p","e","'"," ","o","b","j","e","c","t"," ","h","a","s"," ","n","o"," ","a","t","t","r","i","b","u","t","e"," ","'","i","t","e","m","s","'">>

MsgNoneGet == <<"'","N","o","n","e","T","y","p","e","'"," ","o","b","j","e","c","t"," ","h","a","s"," ","n","o"," ","a","t","t","r","i","b","u","t","e"," ","'","g","e","t","'">>

MsgListGet == <<"'","l","i","s","t","'"," ","o","b","j","e","c","t"," ","h","a","s"," ","n","o"," ","a","t","t","r","i","b","u","t","e"," ","'","g","e","t","'">>

\* "-- ERROR: "
ErrorMarker == <<"-","-"," ","E","R","R","O","R",":"," ">>

\* what reading the rule file leaves in `rules`, or the error it raises:
\* the file absent, unparseable, empty (safe_load gives None), a YAML
\* sequence, or a mapping with its two sections
LoadRules(doc) ==
  CASE doc.kind = "absent"   -> [ok |-> TRUE, rules |-> EmptyRules]
    [] doc.kind = "invalid"  -> [ok |-> FALSE, msg |-> doc.msg]
    [] doc.kind = "empty"    -> [ok |-> TRUE, rules |-> EmptyRules]
    [] doc.kind = "sequence" -> [ok |-> TRUE, rules |-> [shape |-> "list"]]
    [] doc.kind = "mapping"  ->
         [ok |-> TRUE,
          rules |-> [shape |-> "dict", functions |-> doc.functions,
                     table_mapping |-> doc.table_mapping]]

RECURSIVE ApplyFunctions(_, _)
\* for bq_func, dbx_func in items: if bq_func in t: t = t.replace(...)
ApplyFunctions(items, t) ==
  IF items = <<>> THEN t
  ELSE LET bq_func == Head(items)[1]
           dbx_func == Head(items)[2]
       IN  ApplyFunctions(Tail(items),
             IF Contains(t, bq_func) THEN Replace(t, bq_func, dbx_func) ELSE t)

\* the function-mapping loop over rules.get("functions", {}).items()
FunctionMappings(rules, t) ==
  IF rules.shape = "list" THEN [ok |-> FALSE, msg |-> MsgListGet]
  ELSE IF rules.functions.shape = "absent" THEN [ok |-> TRUE, text |-> t]
  ELSE IF rules.functions.shape = "null" THEN [ok |-> FALSE, msg |-> MsgNoneItems]
  ELSE [ok |-> TRUE, text |-> ApplyFunctions(rules.functions.items, t)]

\* d.get(k, k) on the items of a dict
DictGet(items, k) ==
  IF \E i \in 1..Len(items) : items[i][1] = k
    THEN items[CHOOSE i \in 1..Len(items) : items[i][1] = k][2]
    ELSE k

\* rules["table_mapping"].get(key, {}) as the items looked up in replace_table
SubMapItems(v) == IF v.shape = "dict" THEN v.items ELSE <<>>

\* r"`([\w\-]+)`\.`([\w\-]+)`\.`([\w\-]+)`|`([\w\-]+)\.([\w\-]+)\.([\w\-]+)`"
TableRe ==
  << <<Ch(BackQuote), PlusG(WordDashCls, 1), Ch(BackQuote), Ch("."),
       Ch(BackQuote), PlusG(WordDashCls, 2), Ch(BackQuote), Ch("."),
       Ch(BackQuote), PlusG(WordDashCls, 3), Ch(BackQuote)>>,
     <<Ch(BackQuote), PlusG(WordDashCls, 4), Ch("."), PlusG(WordDashCls, 5), Ch("."),
       PlusG(WordDashCls, 6), Ch(BackQuote)>> >>

\* m.group(a) or m.group(b)
GroupOr(g, a, b) == IF g[a] # None /\ g[a] # <<>> THEN g[a] ELSE g[b]

\* replace_table with a cross-level dependency: the dataset looked up in
\* the project mapping
replace_table_cross(project_map, dataset_map, table_map, project, dataset, table) ==
  DictGet(project_map, project) \o <<".">> \o DictGet(project_map, dataset)
    \o <<".">> \o DictGet(table_map, table)

\* replace_table: each segment through its own mapping, itself when unmapped
replace_table(project_map, dataset_map, table_map, project, dataset, table) ==
  DictGet(project_map, project) \o <<".">> \o DictGet(dataset_map, dataset)
    \o <<".">> \o DictGet(table_map, table)

\* lambda m: replace_table((m.group(1) or m.group(4), ...)) with the maps
\* of the table_mapping section tm
TableRepl(tm, g) ==
  replace_table(SubMapItems(tm.projects), SubMapItems(tm.datasets),
                SubMapItems(tm.tables),
                GroupOr(g, 1, 4), GroupOr(g, 2, 5), GroupOr(g, 3, 6))

\* re.sub(<TableRe>, lambda m: replace_table(...), t)
TablePass(tm, t) ==
  LET ms == FindAll(TableRe, 6, t, 1)
  IN  Sub(ms, [i \in 1..Len(ms) |-> TableRepl(tm, ms[i].groups)], t)

\* the table-mapping block: skipped without the section; a null section, or
\* a null sub-mapping met by a matching reference, raises AttributeError
TableMappings(rules, t) ==
  IF rules.table_mapping.shape = "absent" THEN [ok |-> TRUE, text |-> t]
  ELSE IF rules.table_mapping.shape = "null" THEN [ok |-> FALSE, msg |-> MsgNoneGet]
  ELSE IF /\ Matches(TableRe, t)
          /\ "null" \in {rules.table_mapping.projects.shape,
                         rules.table_mapping.datasets.shape,
                         rules.table_mapping.tables.shape}
    THEN [ok |-> FALSE, msg |-> MsgNoneGet]
  ELSE [ok |-> TRUE, text |-> TablePass(rules.table_mapping, t)]

(***************************************************************************)
(* The rewrite chain as one function: the text after the stage named       *)
(***************************************************************************)
ChainStages ==
  <<"array_agg", "count_if", "if", "struct", "array", "date", "partition",
    "cluster", "unnest", "starts_with", "ends_with", "json_colon",
    "json_bracket", "search">>

\* the assignment to `transpiled` made at stage s
ChainStep(s, q, t) ==
  CASE s = "array_agg"    -> ArrayAggPass(q, t)
    [] s = "count_if"     -> CountIfPass(t)
    [] s = "if"           -> IfPass(t)
    [] s = "struct"       -> StructPass(t)
    [] s = "array"        -> ArrayPass(t)
    [] s = "date"         -> DatePass(t)
    [] s = "partition"    -> PartitionPass(t)
    [] s = "cluster"      -> ClusterPass(t)
    [] s = "unnest"       -> UnnestPass(t)
    [] s = "starts_with"  -> StartsWithPass(t)
    [] s = "ends_with"    -> EndsWithPass(t)
    [] s = "json_colon"   -> JsonColonPass(t)
    [] s = "json_bracket" -> JsonBracketPass(t)
    [] s = "search"       -> SearchPass(t)

RECURSIVE ChainFrom(_, _, _)
\* the k-th pass having given `after`: the passes after it (the comparison
\* has the text of a pass computed before the next pass starts, as in the
\* code)
ChainAfter(k, q, t, after) ==
  IF after = t THEN ChainFrom(k + 1, q, t) ELSE ChainFrom(k + 1, q, after)

\* the passes from the k-th on, in order
ChainFrom(k, q, t) ==
  IF k > Len(ChainStages) THEN t
  ELSE ChainAfter(k, q, t, ChainStep(ChainStages[k], q, t))

\* the position after stage s in the code
NextStage(s) ==
  IF s = "search" THEN "load_rules"
  ELSE ChainStages[1 + CHOOSE k \in 1..Len(ChainStages) : ChainStages[k] = s]

\* the cleanup reached, or the exception of the table-mapping block caught
ReturnAfterTables(tb) ==
  IF ~tb.ok THEN ErrorMarker \o tb.msg ELSE Cleanup(tb.text)

\* the table-mapping block reached, or the exception of the loop caught
ReturnAfterFunctions(loaded, f) ==
  IF ~f.ok THEN ErrorMarker \o f.msg
  ELSE ReturnAfterTables(TableMappings(loaded.rules, f.text))

\* the function-mapping loop reached, or the exception of the load caught
ReturnAfterLoad(loaded, chained) ==
  IF ~loaded.ok THEN ErrorMarker \o loaded.msg
  ELSE ReturnAfterFunctions(loaded, FunctionMappings(loaded.rules, chained))

\* convert_sql(query) as a function of the query, of what sqlglot.transpile
\* does with it (sg) and of the rule file (doc): the value returned
ConvertSql(q, sg, doc) ==
  IF ~sg.ok THEN ErrorMarker \o sg.msg
  ELSE ReturnAfterLoad(LoadRules(doc), ChainFrom(1, q, sg.out))

(***************************************************************************)
(* State                                                                   *)
(*                                                                         *)
(* One call of convert_sql: its argument `query`, what the collaborators   *)
(* it calls do for this call (sqlglot: the text sqlglot.transpile returns  *)
(* for the query, or the error it raises; rulesFile: the rule file on      *)
(* disk), the position in the function (pc), its locals `transpiled` and   *)
(* `rules`, the exception caught (exc) and the value returned (result).    *)
(* One request to convert_batch: the uploaded files, the mode, the number  *)
(* of files the loop has dealt with (idx), the archive written so far      *)
(* (zipf) and the response.                                                *)
(***************************************************************************)
VARIABLES query, sqlglot, rulesFile, pc, transpiled, rules, exc, result,
          files, mode, idx, zipf, response

vars == <<query, sqlglot, rulesFile, pc, transpiled, rules, exc, result,
          files, mode, idx, zipf, response>>

\* what a call of convert_sql never assigns
callEnv == <<query, sqlglot, rulesFile, files, mode, idx, zipf, response>>

\* sqlglot.transpile(query, ...)[0] returned text out
Transpiled(out) == [ok |-> TRUE, out |-> out]

\* sqlglot.transpile raised an error whose str() is msg
ParseError(msg) == [ok |-> FALSE, msg |-> msg]

\* an exception raised inside the try block is escaping the function
RaiseEscapes(msg) ==
  /\ pc' = "raised"
  /\ exc' = msg
  /\ UNCHANGED <<transpiled, rules, result>>

\* an exception raised inside the try block: control goes to the except
\* clause with the exception bound
Raise(msg) ==
  /\ pc' = "except"
  /\ exc' = msg
  /\ UNCHANGED <<transpiled, rules, result>>

\* transpiled = sqlglot.transpile(query, read="bigquery", write="spark")[0]
Transpile ==
  /\ pc = "transpile"
  /\ IF sqlglot.ok
       THEN /\ transpiled' = sqlglot.out
            /\ pc' = "array_agg"
            /\ UNCHANGED <<rules, exc, result>>
       ELSE Raise(sqlglot.msg)
  /\ UNCHANGED callEnv

\* one pass of the rewrite chain: `transpiled` reassigned to the text `out`
RewriteStep(s, out) ==
  /\ pc = s
  /\ transpiled' = out
  /\ pc' = NextStage(s)
  /\ UNCHANGED <<rules, exc, result>>
  /\ UNCHANGED callEnv

ArrayAgg == RewriteStep("array_agg", ArrayAggPass(query, transpiled))

CountIf == RewriteStep("count_if", CountIfPass(transpiled))

IfCase == RewriteStep("if", IfPass(transpiled))

Struct == RewriteStep("struct", StructPass(transpiled))

ArrayLiteral == RewriteStep("array", ArrayPass(transpiled))

DateInterval == RewriteStep("date", DatePass(transpiled))

PartitionBy == RewriteStep("partition", PartitionPass(transpiled))

ClusterBy == RewriteStep("cluster", ClusterPass(transpiled))

Unnest == RewriteStep("unnest", UnnestPass(transpiled))

StartsWith == RewriteStep("starts_with", StartsWithPass(transpiled))

EndsWith == RewriteStep("ends_with", EndsWithPass(transpiled))

JsonColon == RewriteStep("json_colon", JsonColonPass(transpiled))

JsonBracket == RewriteStep("json_bracket", JsonBracketPass(transpiled))

Search == RewriteStep("search", SearchPass(transpiled))

\* rules = {}; if rules_path.exists(): rules = yaml.safe_load(f) or {}
LoadRulesStep ==
  /\ pc = "load_rules"
  /\ LET r == LoadRules(rulesFile)
     IN  IF r.ok
           THEN /\ rules' = r.rules
                /\ pc' = "functions"
                /\ UNCHANGED <<transpiled, exc, result>>
           ELSE Raise(r.msg)
  /\ UNCHANGED callEnv

\* the loop over the function mappings
FunctionMappingsStep ==
  /\ pc = "functions"
  /\ LET r == FunctionMappings(rules, transpiled)
     IN  IF r.ok
           THEN /\ transpiled' = r.text
                /\ pc' = "tables"
                /\ UNCHANGED <<rules, exc, result>>
           ELSE Raise(r.msg)
  /\ UNCHANGED callEnv

\* if "table_mapping" in rules: ... re.sub(..., replace_table, transpiled)
TableMappingsStep ==
  /\ pc = "tables"
  /\ LET r == TableMappings(rules, transpiled)
     IN  IF r.ok
           THEN /\ transpiled' = r.text
                /\ pc' = "cleanup"
                /\ UNCHANGED <<rules, exc, result>>
           ELSE Raise(r.msg)
  /\ UNCHANGED callEnv

\* the cleanup and `return transpiled.strip()`
CleanupStep ==
  /\ pc = "cleanup"
  /\ transpiled' = Cleanup(transpiled)
  /\ result' = Cleanup(transpiled)
  /\ pc' = "done"
  /\ UNCHANGED <<rules, exc>>
  /\ UNCHANGED callEnv

\* except Exception as e: return f"-- ERROR: {e}"
Except ==
  /\ pc = "except"
  /\ result' = ErrorMarker \o exc
  /\ pc' = "done"
  /\ UNCHANGED <<transpiled, rules, exc>>
  /\ UNCHANGED callEnv

Next ==
  \/ Transpile
  \/ ArrayAgg
  \/ CountIf
  \/ IfCase
  \/ Struct
  \/ ArrayLiteral
  \/ DateInterval
  \/ PartitionBy
  \/ ClusterBy
  \/ Unnest
  \/ StartsWith
  \/ EndsWith
  \/ JsonColon
  \/ JsonBracket
  \/ Search
  \/ LoadRulesStep
  \/ FunctionMappingsStep
  \/ TableMappingsStep
  \/ CleanupStep
  \/ Except

(***************************************************************************)
(* Inputs                                                                  *)
(***************************************************************************)
\* the sequences over S of length at most n
SeqsUpTo(S, n) == UNION {[1..k -> S] : k \in 0..n}

RECURSIVE Join(_, _)
\* sep.join(ss)
Join(ss, sep) ==
  IF ss = <<>> THEN <<>>
  ELSE IF Len(ss) = 1 THEN ss[1]
  ELSE ss[1] \o sep \o Join(Tail(ss), sep)

\* at most this many items in the select list of a query of ChainTexts
MaxSelectItems == 2

\* at most this many fragments in a text of CleanupTexts
MaxCleanupFrags == 4

\* at most this many function pairs in a rule file of FunctionDocs
MaxFuncPairs == 2

\* at most this many qualified references in a text of TableTexts
MaxRefs == 1

\* at most this many files in a batch of BatchInputs (below the limit)
MaxFiles == 2

\* messages of the errors the collaborators raise
ParseMsg == <<"E","x","p","e","c","t","i","n","g"," ",")","."," ","L","i","n","e"," ","1",","," ","C","o","l",":"," ","9",".">>

YamlMsg == <<"w","h","i","l","e"," ","p","a","r","s","i","n","g"," ","a"," ","f","l","o","w"," ","m","a","p","p","i","n","g">>

\* the call as it starts
CallInit(q, sg, doc) ==
  /\ query = q
  /\ sqlglot = sg
  /\ rulesFile = doc
  /\ pc = "transpile"
  /\ transpiled = None
  /\ rules = EmptyRules
  /\ exc = None
  /\ result = None
  /\ files = <<>>
  /\ mode = "sql"
  /\ idx = 0
  /\ zipf = <<>>
  /\ response = "none"

NoRuleFile == [kind |-> "absent"]

PlainQuery == <<"S","E","L","E","C","T"," ","a"," ","F","R","O","M"," ","t">>

ArrayAggQuery == <<"S","E","L","E","C","T"," ","a","r","r","a","y","_","a","g","g","(","D","I","S","T","I","N","C","T"," ","x",")"," ","F","R","O","M"," ","t">>

\* expressions sqlglot can hand to the rewrite chain
ChainExprs ==
  { <<"C","O","U","N","T","_","I","F","(","x"," ",">"," ","0",")">>, <<"C","O","U","N","T","_","I","F","(","L","E","N","G","T","H","(","x",")"," ",">"," ","0",")">>,
    <<"I","F","(","a",","," ","b",","," ","c",")">>, <<"I","F","(","a",","," ","f","(","b",","," ","c",")",","," ","d",")">>, <<"N","U","L","L","I","F","(","a",","," ","b",")">>, <<"M","A","X","(","c",")">>,
    <<"n","a","m","e","d","_","s","t","r","u","c","t","(","'","x","'",","," ","a",")">>, <<"S","T","R","U","C","T","(","a"," ","A","S"," ","x",","," ","b"," ","A","S"," ","y",")">>,
    <<"A","R","R","A","Y","<","I","N","T",">","[","1",","," ","2","]">>, <<"D","A","T","E"," ","'","2","0","2","0","-","0","1","-","0","1","'"," ","+"," ","1">>, <<"C","A","S","T","(","d"," ","A","S"," ","D","A","T","E",")"," ","+"," ","7">>,
    <<"S","T","A","R","T","S","_","W","I","T","H","(","n","a","m","e",","," ","'","A","'",")">>, <<"E","N","D","S","_","W","I","T","H","(","n","a","m","e",","," ","'","z","'",")">>, <<"S","E","A","R","C","H","(","a",","," ","b",")">>,
    <<"j",":","f">>, <<"j","[","'","f","'","]">>, <<"'","1","2",":","3","0","'">>, <<"C","O","L","L","E","C","T","_","L","I","S","T","(","D","I","S","T","I","N","C","T"," ","x",")">>, <<"a">> }

ChainTails ==
  { <<" ","F","R","O","M"," ","t">>, <<" ","F","R","O","M"," ","t"," ","C","L","U","S","T","E","R"," ","B","Y"," ","a",","," ","b">>,
    <<" ","F","R","O","M"," ","U","N","N","E","S","T","(","S","E","Q","U","E","N","C","E","(","1",","," ","3",")",")">>, <<" ","F","R","O","M"," ","t"," ","P","A","R","T","I","T","I","O","N"," ","B","Y"," ","D","A","T","E","(","c",")">> }

ChainTexts ==
  { <<"S","E","L","E","C","T"," ">> \o Join(items, <<","," ">>) \o tail :
      items \in SeqsUpTo(ChainExprs, MaxSelectItems) \ {<<>>}, tail \in ChainTails }

\* calls that exercise the rewrite chain, with no rule file
InitChain ==
  \E q \in {PlainQuery, ArrayAggQuery} :
    \E sg \in {Transpiled(t) : t \in ChainTexts} \cup {ParseError(ParseMsg)} :
      CallInit(q, sg, NoRuleFile)

SpecChain == InitChain /\ [][Next]_vars

\* a value under a key of the rule file: absent, null, empty, or one pair
SectionShapes(pair) == {Absent, Null, Dict(<<>>), Dict(<<pair>>)}

InvalidRuleFile == [kind |-> "invalid", msg |-> YamlMsg]

RuleFile(functions, table_mapping) ==
  [kind |-> "mapping", functions |-> functions, table_mapping |-> table_mapping]

\* rule files of every shape: absent, unparseable, empty, a YAML sequence,
\* and mappings whose sections and keys are absent, null, empty or filled
LoadDocs ==
  {NoRuleFile, InvalidRuleFile, [kind |-> "empty"], [kind |-> "sequence"]}
  \cup { RuleFile(f, tm) :
           f \in SectionShapes(<<<<"L","E","N","G","T","H">>, <<"C","H","A","R","_","L","E","N","G","T","H">>>>),
           tm \in {Absent, Null}
                    \cup { TableDict(p, d, tb) :
                             p \in SectionShapes(<<<<"p","r","o","j","1">>, <<"c","a","t","1">>>>),
                             d \in SectionShapes(<<<<"d","s","1">>, <<"s","c","h","1">>>>),
                             tb \in SectionShapes(<<<<"t","b","l","1">>, <<"t","1">>>>) } }

LoadTexts == { <<"S","E","L","E","C","T"," ","L","E","N","G","T","H","(","x",")"," ","F","R","O","M"," ",BackQuote,"p","r","o","j","1",".","d","s","1",".","t","b","l","1",BackQuote>>, <<"S","E","L","E","C","T"," ","a"," ","F","R","O","M"," ","t">> }

\* calls that exercise the loading of the rule file
InitLoad ==
  \E sg \in {Transpiled(t) : t \in LoadTexts} \cup {ParseError(ParseMsg)} :
    \E doc \in LoadDocs :
      CallInit(PlainQuery, sg, doc)

SpecLoad == InitLoad /\ [][Next]_vars

\* pairs of a functions section
FuncPairs ==
  { <<<<"D","A","T","E","T","I","M","E">>, <<"T","I","M","E","S","T","A","M","P">>>>, <<<<"C","U","R","R","E","N","T","_","D","A","T","E","T","I","M","E">>, <<"N","O","W">>>>,
    <<<<"L","E","N","G","T","H">>, <<"C","H","A","R","_","L","E","N","G","T","H">>>> }

\* a dict has each key once
UniqueKeys(items) ==
  \A i, j \in 1..Len(items) : items[i][1] = items[j][1] => i = j

FunctionDocs ==
  { RuleFile(Dict(items), Absent) :
      items \in {s \in SeqsUpTo(FuncPairs, MaxFuncPairs) : UniqueKeys(s)} }

FunctionTexts ==
  { <<"S","E","L","E","C","T"," ","C","U","R","R","E","N","T","_","D","A","T","E","T","I","M","E","(",")">>, <<"S","E","L","E","C","T"," ","D","A","T","E","T","I","M","E","(","x",")",","," ","L","E","N","G","T","H","(","y",")"," ","F","R","O","M"," ","t">> }

\* calls that exercise the function mappings
InitFunctions ==
  \E sg \in {Transpiled(t) : t \in FunctionTexts} \cup {ParseError(ParseMsg)} :
    \E doc \in FunctionDocs :
      CallInit(PlainQuery, sg, doc)

SpecFunctions == InitFunctions /\ [][Next]_vars

\* a qualified reference in its two back-quoted forms
DottedRef(p, d, tb) == <<BackQuote>> \o p \o <<".">> \o d \o <<".">> \o tb \o <<BackQuote>>

SegmentRef(p, d, tb) == <<BackQuote>> \o p \o <<BackQuote,".",BackQuote>> \o d \o <<BackQuote,".",BackQuote>> \o tb \o <<BackQuote>>

TableRefs ==
  UNION { {DottedRef(p, d, tb), SegmentRef(p, d, tb)} :
            p \in {<<"p","r","o","j","1">>, <<"x">>}, d \in {<<"d","s","1">>, <<"x">>}, tb \in {<<"t","b","l","1">>, <<"x">>} }

TableTexts ==
  { <<"S","E","L","E","C","T"," ","*"," ","F","R","O","M"," ">> \o Join(refs, <<" ","J","O","I","N"," ">>) \o <<" ","A","S"," ",BackQuote,"a",BackQuote>> :
      refs \in SeqsUpTo(TableRefs, MaxRefs) }

TableDocs ==
  {RuleFile(Absent, Absent)}
  \cup { RuleFile(Absent, TableDict(p, d, tb)) :
           p \in {Absent, Dict(<< <<<<"p","r","o","j","1">>, <<"c","a","t","1">>>>, <<<<"x">>, <<"c">>>> >>)},
           d \in {Absent, Dict(<< <<<<"d","s","1">>, <<"s","c","h","1">>>>, <<<<"x">>, <<"s">>>> >>)},
           tb \in {Absent, Dict(<< <<<<"x">>, <<"t">>>> >>)} }

\* calls that exercise the table mappings
InitTables ==
  \E sg \in {Transpiled(t) : t \in TableTexts} \cup {ParseError(ParseMsg)} :
    \E doc \in TableDocs :
      CallInit(PlainQuery, sg, doc)

SpecTables == InitTables /\ [][Next]_vars

CleanupFrags == { <<"(">>, <<")">>, <<" ">>, <<"x">>, <<"T","I","M","E","S","T","A","M","P">>, <<"S","T","A","M","P">> }

CleanupTexts == { Flatten(fs) : fs \in SeqsUpTo(CleanupFrags, MaxCleanupFrags) }

\* calls that exercise the cleanup
InitCleanup ==
  \E sg \in {Transpiled(t) : t \in CleanupTexts} \cup {ParseError(ParseMsg)} :
    CallInit(PlainQuery, sg, NoRuleFile)

SpecCleanup == InitCleanup /\ [][Next]_vars

(***************************************************************************)
(* convert_batch (src/app.py)                                              *)
(*                                                                         *)
(* An uploaded file is what the endpoint can observe of it: its filename,  *)
(* whether reading it succeeds, whether its bytes decode as UTF-8 and to   *)
(* which text, what sqlglot.transpile does with that text (sg) and what    *)
(* convert_udf_with_llm does with it (llm).  An archive entry is the pair  *)
(* given to zipf.writestr.  The locals query, converted (result) and the   *)
(* exception caught (exc) are those of the file being processed.           *)
(***************************************************************************)
\* len(files) > 100
MaxBatchFiles == 100

UploadFile(filename, readable, utf8, text, sg, llm) ==
  [filename |-> filename, readable |-> readable, utf8 |-> utf8, text |-> text,
   sg |-> sg, llm |-> llm]

\* str(e) of the errors of file.read() and content.decode("utf-8")
ReadMsg == <<"I","/","O"," ","o","p","e","r","a","t","i","o","n"," ","o","n"," ","c","l","o","s","e","d"," ","f","i","l","e",".">>

DecodeMsg == <<"'","u","t","f","-","8","'"," ","c","o","d","e","c"," ","c","a","n","'","t"," ","d","e","c","o","d","e"," ","b","y","t","e"," ","0","x","f","f"," ","i","n"," ","p","o","s","i","t","i","o","n"," ","0",":"," ","i","n","v","a","l","i","d"," ","s","t","a","r","t"," ","b","y","t","e">>

LlmMsg == <<"'","N","o","n","e","T","y","p","e","'"," ","o","b","j","e","c","t"," ","h","a","s"," ","n","o"," ","a","t","t","r","i","b","u","t","e"," ","'","s","t","a","t","u","s","_","c","o","d","e","'">>

\* the greatest position of character c in name, 0 when it has none
LastIndex(name, c) ==
  LET at == {i \in 1..Len(name) : name[i] = c}
  IN  IF at = {} THEN 0 ELSE Greatest(at)

\* os.path.splitext(name): split at the last dot of the last path component,
\* unless only dots precede it there
SplitExt(name) ==
  LET sep == LastIndex(name, "/")
      dot == LastIndex(name, ".")
  IN  IF dot > sep /\ \E i \in (sep + 1)..(dot - 1) : name[i] # "."
        THEN [base |-> SubSeq(name, 1, dot - 1), ext |-> SubSeq(name, dot, Len(name))]
        ELSE [base |-> name, ext |-> <<>>]

\* output_name = f"{base}_converted{ext}", ext defaulting by mode
OutputName(filename, m) ==
  LET s == SplitExt(filename)
      ext == IF s.ext # <<>> THEN s.ext
             ELSE IF m # "udf" THEN <<".","s","q","l">> ELSE <<".","p","y">>
  IN  s.base \o <<"_","c","o","n","v","e","r","t","e","d">> \o ext

\* error_name = file.filename.replace(".sql", "_error.txt")
ErrorName(filename) == Replace(filename, <<".","s","q","l">>, <<"_","e","r","r","o","r",".","t","x","t">>)

\* f"Conversion failed: {e}"
FailureNote(msg) == <<"C","o","n","v","e","r","s","i","o","n"," ","f","a","i","l","e","d",":"," ">> \o msg

\* the value assigned to `converted` for the mode, or the error raised;
\* sql is what convert_sql(query) returns, llm what convert_udf_with_llm does
Converted(m, sql, llm) ==
  CASE m = "sql"     -> [ok |-> TRUE, text |-> sql]
    [] m = "pyspark" -> [ok |-> TRUE, text |-> <<"d","f"," ","="," ","s","p","a","r","k",".","s","q","l","(","'","'","'">> \o sql \o <<"'","'","'",")">>]
    [] m = "python"  ->
         [ok |-> TRUE, text |-> <<"d","f"," ","="," ","d","u","c","k","d","b",".","q","u","e","r","y","(","'","'","'">> \o sql \o <<"'","'","'",")",".","t","o","_","d","f","(",")">>]
    [] m = "udf"     -> llm
    [] OTHER         -> [ok |-> TRUE, text |-> <<"-","-"," ","E","R","R","O","R",":"," ","U","n","s","u","p","p","o","r","t","e","d"," ","c","o","n","v","e","r","s","i","o","n"," ","m","o","d","e">>]

\* the file the loop is at
CurrentFile == files[idx + 1]

batchEnv == <<sqlglot, rulesFile, transpiled, rules, files, mode>>

\* if len(files) > 100: return {"error": ...}
RejectBatch ==
  /\ pc = "batch"
  /\ Len(files) > MaxBatchFiles
  /\ response' = "error"
  /\ pc' = "done"
  /\ UNCHANGED <<query, exc, result, idx, zipf>>
  /\ UNCHANGED batchEnv

\* zip_buffer = io.BytesIO(); with zipfile.ZipFile(...) as zipf:
OpenArchive ==
  /\ pc = "batch"
  /\ Len(files) <= MaxBatchFiles
  /\ zipf' = <<>>
  /\ pc' = "read"
  /\ UNCHANGED <<query, exc, result, idx, response>>
  /\ UNCHANGED batchEnv

\* an exception raised in the try block of the loop body escaping the loop
FileRaiseAborts(msg) ==
  /\ response' = "failed"
  /\ pc' = "done"
  /\ UNCHANGED <<exc, query, result, idx, zipf>>

\* an exception raised in the try block of the loop body: control goes to
\* the except clause of this file
FileRaise(msg) ==
  /\ exc' = msg
  /\ pc' = "file_except"
  /\ UNCHANGED <<query, result, idx, zipf, response>>

\* for file in files: content = await file.read()
ReadFile ==
  /\ pc = "read"
  /\ idx < Len(files)
  /\ IF CurrentFile.readable
       THEN /\ pc' = "decode"
            /\ UNCHANGED <<query, exc, result, idx, zipf, response>>
       ELSE FileRaise(ReadMsg)
  /\ UNCHANGED batchEnv

\* query = content.decode("utf-8")
DecodeContent ==
  /\ pc = "decode"
  /\ IF CurrentFile.utf8
       THEN /\ query' = CurrentFile.text
            /\ pc' = "convert"
            /\ UNCHANGED <<exc, result, idx, zipf, response>>
       ELSE FileRaise(DecodeMsg)
  /\ UNCHANGED batchEnv

\* `converted` assigned the value of c, or the error of c raised
Assign(c) ==
  IF c.ok
    THEN /\ result' = c.text
         /\ pc' = "write"
         /\ UNCHANGED <<query, exc, idx, zipf, response>>
    ELSE FileRaise(c.msg)

\* the dispatch on mode
ConvertFile ==
  /\ pc = "convert"
  /\ Assign(Converted(mode, ConvertSql(query, CurrentFile.sg, rulesFile),
                      CurrentFile.llm))
  /\ UNCHANGED batchEnv

\* zipf.writestr(output_name, converted), then the next file
WriteOutput ==
  /\ pc = "write"
  /\ zipf' = Append(zipf, [name |-> OutputName(CurrentFile.filename, mode),
                           data |-> result])
  /\ idx' = idx + 1
  /\ pc' = "read"
  /\ UNCHANGED <<query, exc, result, response>>
  /\ UNCHANGED batchEnv

\* except Exception as e: zipf.writestr(error_name, ...), then the next file
WriteError ==
  /\ pc = "file_except"
  /\ zipf' = Append(zipf, [name |-> ErrorName(CurrentFile.filename),
                           data |-> FailureNote(exc)])
  /\ idx' = idx + 1
  /\ pc' = "read"
  /\ UNCHANGED <<query, exc, result, response>>
  /\ UNCHANGED batchEnv

\* the loop is over: return StreamingResponse(zip_buffer, ...)
Respond ==
  /\ pc = "read"
  /\ idx = Len(files)
  /\ response' = "zip"
  /\ pc' = "done"
  /\ UNCHANGED <<query, exc, result, idx, zipf>>
  /\ UNCHANGED batchEnv

NextBatch ==
  \/ RejectBatch
  \/ OpenArchive
  \/ ReadFile
  \/ DecodeContent
  \/ ConvertFile
  \/ WriteOutput
  \/ WriteError
  \/ Respond

LlmReturns(text) == [ok |-> TRUE, text |-> text]

LlmRaises(msg) == [ok |-> FALSE, msg |-> msg]

PythonUdf == <<"d","e","f"," ","f","(","x",")",":"," ","r","e","t","u","r","n"," ","x">>

\* files that convert, files whose conversion gives a Diagnostic, files
\* that cannot be read or decoded, with and without an extension
BatchFiles ==
  { UploadFile(<<"a",".","s","q","l">>, TRUE, TRUE, PlainQuery, Transpiled(PlainQuery),
               LlmReturns(PythonUdf)),
    UploadFile(<<"b",".","s","q","l">>, TRUE, TRUE, <<"S","E","L","E","C","T"," ","(","a"," ","F","R","O","M"," ","t">>, ParseError(ParseMsg),
               LlmRaises(LlmMsg)),
    UploadFile(<<"c",".","s","q","l">>, TRUE, FALSE, None, ParseError(ParseMsg),
               LlmRaises(LlmMsg)),
    UploadFile(<<"d">>, FALSE, FALSE, None, ParseError(ParseMsg), LlmRaises(LlmMsg)),
    UploadFile(<<"q","/","e",".","v","1",".","t","x","t">>, TRUE, TRUE, <<"S","E","L","E","C","T"," ","C","O","U","N","T","_","I","F","(","x"," ",">"," ","0",")"," ","F","R","O","M"," ","t">>,
               Transpiled(<<"S","E","L","E","C","T"," ","C","O","U","N","T","_","I","F","(","x"," ",">"," ","0",")"," ","F","R","O","M"," ","t">>), LlmReturns(PythonUdf)),
    UploadFile(<<".","f">>, TRUE, TRUE, PlainQuery, Transpiled(PlainQuery),
               LlmReturns(PythonUdf)) }

BatchModes == {"sql", "pyspark", "python", "udf", "xml"}

\* a batch of n copies of a file
Copies(f, n) == [i \in 1..n |-> f]

FirstFile == CHOOSE f \in BatchFiles : f.filename = <<"a",".","s","q","l">>

\* requests of at most MaxFiles files in every mode, a request at the limit
\* and one above it
BatchInit(fs, m) ==
  /\ files = fs
  /\ mode = m
  /\ idx = 0
  /\ zipf = <<>>
  /\ response = "none"
  /\ pc = "batch"
  /\ query = None
  /\ exc = None
  /\ result = None
  /\ transpiled = None
  /\ rules = EmptyRules
  /\ sqlglot = ParseError(ParseMsg)
  /\ rulesFile = NoRuleFile

InitBatch ==
  \/ \E fs \in SeqsUpTo(BatchFiles, MaxFiles) : \E m \in BatchModes : BatchInit(fs, m)
  \/ \E n \in {MaxBatchFiles, MaxBatchFiles + 1} : BatchInit(Copies(FirstFile, n), "sql")

SpecBatch == InitBatch /\ [][NextBatch]_vars

(***************************************************************************)
(* Properties of convert_sql: errors and the rule file                     *)
(***************************************************************************)
\* C1: convert_sql returns a string and never raises: a failure of any
\* stage (the transpilation, the loading of the rule file, the function or
\* table mappings) ends in the except clause, and the value returned is the
\* marker "-- ERROR: " followed by the message of the failure, with nothing
\* of the partially rewritten text.
C1_NeverRaises ==
  /\ pc # "raised"
  /\ pc = "done" =>
       /\ result # None
       /\ exc # None => result = ErrorMarker \o exc
       /\ ~sqlglot.ok => result = ErrorMarker \o sqlglot.msg
       /\ (sqlglot.ok /\ ~LoadRules(rulesFile).ok)
            => result = ErrorMarker \o LoadRules(rulesFile).msg

\* a call whose function-mapping loop failed after the rewrite chain and the
\* rule file went through: the Diagnostic of that failure is returned
C1_Witness ==
  /\ pc = "done"
  /\ sqlglot.ok
  /\ rulesFile.kind = "mapping"
  /\ rulesFile.functions.shape = "null"
  /\ transpiled # None
  /\ result = ErrorMarker \o MsgNoneItems

\* C2: when the rule file exists but cannot be parsed, convert_sql goes on
\* with an empty rule set: its result is the result of the same call with
\* no rule file, and is not a Diagnostic.
C2_UnparseableRulesAsEmpty ==
  (pc = "done" /\ sqlglot.ok /\ rulesFile.kind = "invalid")
    => result = ConvertSql(query, sqlglot, NoRuleFile)

\* a section or key with nothing under it read as if it were not there
AsMissing(v) == IF v.shape = "null" THEN Absent ELSE v

\* the table_mapping section with its empty keys read as missing
TableSectionAsMissing(tm) ==
  IF tm.shape # "dict" THEN AsMissing(tm)
  ELSE TableDict(AsMissing(tm.projects), AsMissing(tm.datasets), AsMissing(tm.tables))

\* the rule file with every empty section and key read as missing
EmptyAsMissing(doc) ==
  IF doc.kind # "mapping" THEN NoRuleFile
  ELSE RuleFile(AsMissing(doc.functions), TableSectionAsMissing(doc.table_mapping))

\* C3: a rule file that is missing, or in which a section (functions,
\* table_mapping) or a key (projects, datasets, tables) is missing or empty,
\* gives no remapping for that part: the conversion succeeds and its result
\* is that of the call with the part left out.
C3_EmptySectionsDegrade ==
  (pc = "done" /\ sqlglot.ok /\ rulesFile.kind \in {"absent", "empty", "mapping"})
    => /\ exc = None
       /\ result = ConvertSql(query, sqlglot, EmptyAsMissing(rulesFile))

(***************************************************************************)
(* Properties of the table mappings                                        *)
(***************************************************************************)
\* where the segment that starts at pos ends: the first position from pos
\* on that holds no letter, digit, underscore or dash
SegmentEnd(t, pos) ==
  LET stop == {i \in pos..Len(t) : t[i] \notin WordChars \cup {"-"}}
  IN  IF stop = {} THEN Len(t) + 1 ELSE Least(stop)

CharAt(t, i, c) == i >= 1 /\ i <= Len(t) /\ t[i] = c

\* a reference to the segments t[a1..b1-1], t[a2..b2-1], t[a3..b3-1]
Reference(t, ok, a1, b1, a2, b2, a3, b3, end) ==
  [ok |-> ok /\ b1 > a1 /\ b2 > a2 /\ b3 > a3,
   project |-> SubSeq(t, a1, b1 - 1), dataset |-> SubSeq(t, a2, b2 - 1),
   table |-> SubSeq(t, a3, b3 - 1), end |-> end]

\* the reference `project.dataset.table` at p, one pair of back-quotes
DottedAt(t, p) ==
  LET e1 == SegmentEnd(t, p + 1)
      e2 == SegmentEnd(t, e1 + 1)
      e3 == SegmentEnd(t, e2 + 1)
  IN  Reference(t, /\ CharAt(t, p, BackQuote) /\ CharAt(t, e1, ".")
                   /\ CharAt(t, e2, ".") /\ CharAt(t, e3, BackQuote),
                p + 1, e1, e1 + 1, e2, e2 + 1, e3, e3 + 1)

\* the reference `project`.`dataset`.`table` at p, each segment back-quoted
QuotedAt(t, p) ==
  LET e1 == SegmentEnd(t, p + 1)
      e2 == SegmentEnd(t, e1 + 3)
      e3 == SegmentEnd(t, e2 + 3)
  IN  Reference(t, /\ CharAt(t, p, BackQuote)
                   /\ CharAt(t, e1, BackQuote) /\ CharAt(t, e1 + 1, ".")
                   /\ CharAt(t, e1 + 2, BackQuote)
                   /\ CharAt(t, e2, BackQuote) /\ CharAt(t, e2 + 1, ".")
                   /\ CharAt(t, e2 + 2, BackQuote)
                   /\ CharAt(t, e3, BackQuote),
                p + 1, e1, e1 + 3, e2, e2 + 3, e3, e3 + 1)

ReferenceAt(t, p) == IF QuotedAt(t, p).ok THEN QuotedAt(t, p) ELSE DottedAt(t, p)

\* a segment through its own mapping m: its target, itself when m is
\* missing or has no entry for it
Resolved(m, segment) ==
  IF m.shape = "dict" /\ \E i \in 1..Len(m.items) : m.items[i][1] = segment
    THEN m.items[CHOOSE i \in 1..Len(m.items) : m.items[i][1] = segment][2]
    ELSE segment

\* catalog.schema.table of reference r, unquoted
Remapped(tm, r) ==
  Resolved(tm.projects, r.project) \o <<".">> \o Resolved(tm.datasets, r.dataset)
    \o <<".">> \o Resolved(tm.tables, r.table)

RECURSIVE RemapFrom(_, _, _, _)
\* t from pos on with reference r in place remapped
RemapOne(tm, t, at, pos, p, r) ==
  SubSeq(t, pos, p - 1) \o Remapped(tm, r) \o RemapFrom(tm, t, at, r.end)

\* t from pos on with the references that start at the positions `at`
\* remapped, left to right
RemapFrom(tm, t, at, pos) ==
  LET ahead == {p \in at : p >= pos}
  IN  IF ahead = {} THEN SubSeq(t, pos, Len(t))
      ELSE RemapOne(tm, t, at, pos, Least(ahead), ReferenceAt(t, Least(ahead)))

\* t with every qualified reference remapped segment by segment
RemapReferences(tm, t) ==
  RemapFrom(tm, t, {p \in 1..Len(t) : ReferenceAt(t, p).ok}, 1)

\* C4: the table-mapping stage re-emits every three-part reference, in the
\* dotted and in the per-segment back-quoted form, as unquoted
\* catalog.schema.table, each segment resolved through its own mapping only
\* (projects, datasets, tables) and emitted unchanged when that mapping has
\* no entry for it; the rest of the text is kept.
C4_SegmentsMappedIndependently ==
  [][(pc = "tables" /\ pc' = "cleanup" /\ rules.table_mapping.shape = "dict")
       => transpiled' = RemapReferences(rules.table_mapping, transpiled)]_vars

\* projects and datasets mapped, no tables mapping: `proj1.ds1.tbl1` has
\* become cat1.sch1.tbl1
C4_Witness ==
  /\ pc = "cleanup"
  /\ sqlglot.ok
  /\ sqlglot.out = <<"S","E","L","E","C","T"," ","*"," ","F","R","O","M"," ",BackQuote,"p","r","o","j","1",".","d","s","1",".","t","b","l","1",BackQuote," ","A","S"," ",BackQuote,"a",BackQuote>>
  /\ rules.table_mapping.shape = "dict"
  /\ rules.table_mapping.projects.shape = "dict"
  /\ rules.table_mapping.datasets.shape = "dict"
  /\ rules.table_mapping.tables.shape = "absent"
  /\ transpiled = <<"S","E","L","E","C","T"," ","*"," ","F","R","O","M"," ","c","a","t","1",".","s","c","h","1",".","t","b","l","1"," ","A","S"," ",BackQuote,"a",BackQuote>>

(***************************************************************************)
(* Properties of the rewrite chain                                         *)
(***************************************************************************)
\* the last position of a match given by its item ends, 0 for no match
EndOrZero(ends) == IF ends = Fail THEN 0 ELSE ends[Len(ends)]

\* the position after the "(" of a call of `name` (in either case, blanks
\* allowed before the parenthesis) whose name starts at pos and is not the
\* tail of a longer identifier; 0 when there is none
CallOpen(t, pos, name) ==
  IF IsWordAt(t, pos - 1) THEN 0
  ELSE EndOrZero(MatchItems(LitI(name) \o <<Star(SpaceCls), Ch("(")>>, t, 1, pos))

\* how many positions of t[a..b] hold character c
CountChar(t, a, b, c) == Cardinality({i \in a..b : t[i] = c})

\* how many parentheses opened in t[from..i-1] are still open at i
Depth(t, from, i) == CountChar(t, from, i - 1, "(") - CountChar(t, from, i - 1, ")")

\* the position of the ")" that closes the parenthesis opened just before
\* `open`; 0 when it is not closed
CloseParen(t, open) ==
  LET closing == {i \in open..Len(t) : t[i] = ")" /\ Depth(t, open, i) = 0}
  IN  IF open = 0 \/ closing = {} THEN 0 ELSE Least(closing)

RECURSIVE SplitAt(_, _, _, _)
\* t[from..to] cut at the positions of cuts
SplitAt(t, from, to, cuts) ==
  IF cuts = {} THEN <<SubSeq(t, from, to)>>
  ELSE <<SubSeq(t, from, Least(cuts) - 1)>>
         \o SplitAt(t, Least(cuts) + 1, to, cuts \ {Least(cuts)})

\* the arguments of a call: t[from..to] split at the commas outside any
\* nested parenthesis
TopLevelArgs(t, from, to) ==
  SplitAt(t, from, to, {i \in from..to : t[i] = "," /\ Depth(t, from, i) = 0})

\* the arguments of the call of `name` at p; <<>> when there is no closed
\* call there
CallArgs(t, p, name) ==
  IF CloseParen(t, CallOpen(t, p, name)) = 0 THEN <<>>
  ELSE TopLevelArgs(t, CallOpen(t, p, name), CloseParen(t, CallOpen(t, p, name)) - 1)

\* the whole argument of the call of `name` at p
WholeArg(t, p, name) ==
  SubSeq(t, CallOpen(t, p, name), CloseParen(t, CallOpen(t, p, name)) - 1)

RECURSIVE RewriteCalls(_, _, _, _, _)
\* the call at p rewritten (a COUNT_IF call from its whole argument, an IF
\* call from its three arguments), then the text after its closing
\* parenthesis
RewriteCall(t, name, whole, at, pos, p) ==
  SubSeq(t, pos, p - 1)
    \o (IF whole THEN CountIfRepl(<<WholeArg(t, p, name)>>)
                 ELSE IfRepl(CallArgs(t, p, name)))
    \o RewriteCalls(t, name, whole, at, CloseParen(t, CallOpen(t, p, name)) + 1)

\* t from pos on with the calls of `name` that start at the positions `at`
\* rewritten, each up to its own closing parenthesis
RewriteCalls(t, name, whole, at, pos) ==
  LET ahead == {p \in at : p >= pos}
  IN  IF ahead = {} THEN SubSeq(t, pos, Len(t))
      ELSE RewriteCall(t, name, whole, at, pos, Least(ahead))

\* every call COUNT_IF(<cond>) rewritten with <cond> its whole argument
WholeArgCountIf(t) ==
  RewriteCalls(t, <<"C","O","U","N","T","_","I","F">>, TRUE,
               {p \in 1..Len(t) : CloseParen(t, CallOpen(t, p, <<"C","O","U","N","T","_","I","F">>)) # 0}, 1)

\* C5: the conditional-count pass rewrites every call COUNT_IF(<cond>) into
\* SUM(CASE WHEN <cond> THEN 1 ELSE 0 END) with <cond> the call's whole
\* argument, verbatim, also when <cond> contains parentheses; the text after
\* the call's closing parenthesis is unchanged.
C5_CountIfWholeArgument ==
  [][pc = "count_if" => transpiled' = WholeArgCountIf(transpiled)]_vars

\* every call IF(cond, then, else) rewritten with its three arguments split
\* at the top-level commas, the call ended at its own closing parenthesis
BalancedIf(t) ==
  RewriteCalls(t, <<"I","F">>, FALSE,
               {p \in 1..Len(t) : Len(CallArgs(t, p, <<"I","F">>)) = 3}, 1)

\* C7: the ternary-conditional pass splits IF(cond, then, else) at the
\* top-level commas and ends the call at its own matching closing
\* parenthesis, also when an argument is a nested call with its own commas
\* or parentheses.
C7_IfBalancedArguments ==
  [][pc = "if" => transpiled' = BalancedIf(transpiled)]_vars

\* position pos lies inside a quoted string literal
InString(t, pos) == CountChar(t, 1, pos - 1, "'") % 2 = 1

\* the idiom a pattern targets occurs in t: the pattern matches at a place
\* that is not the tail of a longer identifier and not inside a string
IdiomOccurs(alts, t) ==
  \E pos \in MatchStarts(alts, t) : ~IsWordAt(t, pos - 1) /\ ~InString(t, pos)

\* the pattern of each pass
StageRe(s) ==
  CASE s = "count_if"     -> CountIfRe
    [] s = "if"           -> IfRe
    [] s = "struct"       -> StructRe
    [] s = "array"        -> ArrayRe
    [] s = "date"         -> DateRe
    [] s = "partition"    -> PartitionRe
    [] s = "cluster"      -> ClusterRe
    [] s = "unnest"       -> UnnestRe
    [] s = "starts_with"  -> StartsWithRe
    [] s = "ends_with"    -> EndsWithRe
    [] s = "json_colon"   -> JsonColonRe
    [] s = "json_bracket" -> JsonBracketRe
    [] s = "search"       -> SearchRe

\* the text given to pass s contains the idiom the pass targets
HasIdiom(s, q, t) ==
  IF s = "array_agg" THEN Contains(Upper(q), <<"A","R","R","A","Y","_","A","G","G","(","D","I","S","T","I","N","C","T">>)
  ELSE IdiomOccurs(StageRe(s), t)

IsChainStage(s) == \E k \in 1..Len(ChainStages) : ChainStages[k] = s

\* C8: a pass of the rewrite chain whose input does not contain the idiom it
\* targets returns its input unchanged (NULLIF, named_struct and the colons
\* of a string literal are not such idioms).
C8_NoTriggerNoChange ==
  [][(IsChainStage(pc) /\ ~HasIdiom(pc, query, transpiled))
       => transpiled' = transpiled]_vars

(***************************************************************************)
(* Properties of the function mappings and of the cleanup                  *)
(***************************************************************************)
\* the orders in which the pairs of items can be listed
Orders(items) ==
  {p \in [1..Len(items) -> {items[i] : i \in 1..Len(items)}] :
     \A i \in 1..Len(items) : \E j \in 1..Len(items) : p[j] = items[i]}

\* C9: the function-mapping stage does not depend on the order in which the
\* pairs are listed: applying the pairs (unique keys) in any order gives the
\* text the stage gives, in which the target of every source name that
\* occurred in the input occurs.
C9_FunctionOrderIrrelevant ==
  [][(pc = "functions" /\ pc' = "tables" /\ rules.functions.shape = "dict")
       => /\ \A p \in Orders(rules.functions.items) :
               transpiled' = ApplyFunctions(p, transpiled)
          /\ \A i \in 1..Len(rules.functions.items) :
               Contains(transpiled, rules.functions.items[i][1])
                 => Contains(transpiled', rules.functions.items[i][2])]_vars

\* C10: the successful result of convert_sql has no "(" followed by a space,
\* no ")" preceded by a space and no "TIMESTAMPSTAMP", whatever text entered
\* the cleanup.
C10_CleanupNormalizes ==
  (pc = "done" /\ exc = None)
    => /\ ~Contains(result, <<"("," ">>)
       /\ ~Contains(result, <<" ",")">>)
       /\ ~Contains(result, <<"T","I","M","E","S","T","A","M","P","S","T","A","M","P">>)

(***************************************************************************)
(* Properties of convert_batch                                             *)
(***************************************************************************)
\* the archive entry of file f given what its conversion c did
EntryOf(f, m, c) ==
  IF c.ok THEN [name |-> OutputName(f.filename, m), data |-> c.text]
  ELSE [name |-> ErrorName(f.filename), data |-> FailureNote(c.msg)]

\* the archive entry of file f processed on its own: a failure note when it
\* cannot be read or decoded, else its conversion
OwnEntry(f, m, doc) ==
  IF ~f.readable
    THEN [name |-> ErrorName(f.filename), data |-> FailureNote(ReadMsg)]
  ELSE IF ~f.utf8
    THEN [name |-> ErrorName(f.filename), data |-> FailureNote(DecodeMsg)]
  ELSE EntryOf(f, m, Converted(m, ConvertSql(f.text, f.sg, doc), f.llm))

\* C6: in a batch of at most 100 files each file is a unit of its own: the
\* archive holds one entry per file dealt with; a failure in reading,
\* decoding or converting a file does not end the batch, which always ends
\* with the archive of one entry per file, the entry of each file being the
\* one the file gives on its own, whatever happened to the other files.
C6_PerFileIsolation ==
  /\ Len(zipf) = idx
  /\ (pc = "done" /\ Len(files) <= MaxBatchFiles)
       => /\ response = "zip"
          /\ Len(zipf) = Len(files)
          /\ \A i \in 1..Len(files) : zipf[i] = OwnEntry(files[i], mode, rulesFile)

\* a batch whose first file cannot be decoded and whose second file converts
C6_Witness ==
  /\ pc = "done"
  /\ response = "zip"
  /\ mode = "sql"
  /\ Len(files) = 2
  /\ files[1].readable /\ ~files[1].utf8
  /\ files[2].filename = <<"a",".","s","q","l">>
  /\ zipf = << [name |-> <<"c","_","e","r","r","o","r",".","t","x","t">>, data |-> FailureNote(DecodeMsg)],
               [name |-> <<"a","_","c","o","n","v","e","r","t","e","d",".","s","q","l">>, data |-> PlainQuery] >>

====
